---- MODULE Spec2Model ----
(***************************************************************************)
(* A model of the tier-list renderer (src/src/drawer.ts) and of the tool   *)
(* call handler of the MCP server in front of it.                          *)
(*                                                                         *)
(*   - generateTierListImage is a state machine: one action per            *)
(*     synchronous stretch of the function and one per awaited answer      *)
(*     (DNS lookup, HTTP fetch, image decode).                             *)
(*   - validateUrl, the tier grouping, the layout arithmetic, fitText,     *)
(*     wrapText and breakWord are operators computed as the code computes  *)
(*     them.                                                               *)
(*   - the CallToolRequestSchema handler is two actions around the         *)
(*     renderer: the schema parse, and the answer built from what the      *)
(*     renderer returned or threw.                                         *)
(*                                                                         *)
(* Strings that the code only compares (URL schemes, hosts, tool names)    *)
(* are TLA+ strings.  Strings the code takes apart or measures (tier ids   *)
(* and labels, item.tier, texts to wrap, resolved addresses) are sequences *)
(* of one-character strings.                                               *)
(* An optional field is a sequence of length 0 (absent) or 1 (present).    *)
(***************************************************************************)
EXTENDS Integers, Sequences, FiniteSets, TLC

VARIABLES
    config,       \* the TierListConfig handed to generateTierListImage
    pc,           \* position inside generateTierListImage
    itemsByTier,  \* own properties of the itemsByTier object: id -> item indices
    rowHeights,   \* rowHeights[i], one per tier
    totalHeight,  \* totalHeight as computed by the layout loop
    canvas,       \* heights handed to createCanvas, in call order
    rows,         \* tier rows drawn so far
    cells,        \* item cells drawn so far
    currentY,     \* y of the row being drawn
    ti,           \* 1-based index of the tier being drawn (i + 1 of the code)
    ci,           \* 1-based index of the item being drawn inside tierItems
    itemX,        \* x cursor inside the row
    itemY,        \* y cursor inside the row
    net,          \* what loadItemImage has asked of the network for the current item
    io,           \* counters of the external calls issued by this render
    result,       \* how the render ended
    fit,          \* the text fitter's call under test: input and output
    tool          \* the tool call being served: request, progress, response

vars == <<config, pc, itemsByTier, rowHeights, totalHeight, canvas, rows, cells,
          currentY, ti, ci, itemX, itemY, net, io, result, fit, tool>>

renderVars == <<config, pc, itemsByTier, rowHeights, totalHeight, canvas, rows, cells,
                currentY, ti, ci, itemX, itemY, net, io, result>>

-----------------------------------------------------------------------------
(* Program constants.                                                      *)

TIER_LABEL_WIDTH == 100
ITEM_SIZE == 80
PADDING == 5
ROW_MIN_HEIGHT == 100
LIST_WIDTH == 800
HEADER_HEIGHT == 60
MAX_ITEMS == 50
MAX_CANVAS_HEIGHT == 5000
MIN_FONT_SIZE == 8
BOLD_START_SIZE == 24
NORMAL_START_SIZE == 16
EMPTY_TEXT_FONT_SIZE == 12

-----------------------------------------------------------------------------
(* Bounds of the model.                                                    *)

\* Longest text handed to fitText on its own.
MaxTextLen == 4
\* Largest number of freely chosen items in a config.
MaxHead == 2

-----------------------------------------------------------------------------
(* Optional values and small helpers.                                      *)

None == <<>>
Some(x) == <<x>>
IsSome(o) == Len(o) = 1
Get(o) == o[1]

Max(a, b) == IF a >= b THEN a ELSE b

\* ceil(a / b) for naturals a and b > 0, as Math.ceil(a / b) gives it.
CeilDiv(a, b) == (a + b - 1) \div b

\* All sequences over S of length at most n.
SeqUpTo(S, n) == UNION {[1..k -> S] : k \in 0..n}

\* JavaScript truthiness of a string held as a sequence of characters.
TruthyText(t) == Len(t) > 0

-----------------------------------------------------------------------------
(* Text measurement (ctx.measureText under ctx.font = weight size family). *)
(* The canvas is external; the model measures a text as the sum of its     *)
(* characters' advances, proportional to the font size, bold a quarter     *)
(* wider.  Widths are kept in sixteenths of a pixel so that all            *)
(* comparisons are exact integer comparisons.                              *)

CharUnits(c) ==
    CASE c = " " -> 1
      [] c = "i" -> 1
      [] c = "W" -> 4
      [] OTHER   -> 2

\* The sum of the characters' advances: one element per unit of each character.
TextUnits(t) ==
    Cardinality(UNION {{<<n, u>> : u \in 1..CharUnits(t[n])} : n \in 1..Len(t)})

\* 16 * ctx.measureText(t).width
MeasureText(font, t) ==
    font.size * TextUnits(t) * (IF font.weight = "bold" THEN 5 ELSE 4)

WidthGreater(font, t, maxWidth) == MeasureText(font, t) > 16 * maxWidth
WidthLess(font, t, maxWidth) == MeasureText(font, t) < 16 * maxWidth

-----------------------------------------------------------------------------
(* breakWord, wrapText, fitText.                                           *)

\* How many of the next characters the else branch of breakWord's loop appends
\* to currentPart before a character makes the part wider than maxWidth.
Appended(font, rest, maxWidth, currentPart) ==
    Cardinality({n \in 1..Len(rest) :
        ~WidthGreater(font, currentPart \o SubSeq(rest, 1, n), maxWidth)})

\* The for-of loop of breakWord from the state (parts, currentPart), taken one
\* fragment at a time: the characters up to the next one that does not fit
\* are appended, then that character closes the part and starts the next.
RECURSIVE BreakLoop(_, _, _, _, _)
BreakLoop(font, rest, maxWidth, parts, currentPart) ==
    LET n == Appended(font, rest, maxWidth, currentPart)
        grown == currentPart \o SubSeq(rest, 1, n)
    IN IF n = Len(rest)
       THEN IF TruthyText(grown) THEN Append(parts, grown) ELSE parts
       ELSE BreakLoop(font, SubSeq(rest, n + 2, Len(rest)), maxWidth,
                      Append(parts, grown), <<rest[n + 1]>>)

\* A variant of breakWord that closes a fragment after the character that
\* made it too wide instead of before it.
RECURSIVE BreakLoopLate(_, _, _, _, _)
BreakLoopLate(font, rest, maxWidth, parts, currentPart) ==
    IF rest = <<>>
    THEN IF TruthyText(currentPart) THEN Append(parts, currentPart) ELSE parts
    ELSE LET char == Head(rest) IN
         IF WidthGreater(font, Append(currentPart, char), maxWidth)
         THEN BreakLoopLate(font, Tail(rest), maxWidth,
                            Append(parts, Append(currentPart, char)), <<>>)
         ELSE BreakLoopLate(font, Tail(rest), maxWidth, parts, Append(currentPart, char))

breakWordLate(font, word, maxWidth) ==
    LET parts == BreakLoopLate(font, word, maxWidth, <<>>, <<>>)
    IN IF parts = <<>> THEN <<word>> ELSE parts

breakWord(font, word, maxWidth) == BreakLoop(font, word, maxWidth, <<>>, <<>>)

\* text.split(' '): always at least one word, empty words between adjacent
\* spaces.  The k-th word lies between the (k-1)-th and the k-th space.
SplitSpaces(text) ==
    LET spaces == {p \in 1..Len(text) : text[p] = " "}
        count == Cardinality(spaces)
        Space(k) == IF k = 0 THEN 0
                    ELSE IF k > count THEN Len(text) + 1
                    ELSE CHOOSE p \in spaces : Cardinality({q \in spaces : q < p}) = k - 1
    IN [k \in 1..(count + 1) |-> SubSeq(text, Space(k - 1) + 1, Space(k) - 1)]

\* broken.slice(0, -1)
AllButLast(s) == IF Len(s) = 0 THEN <<>> ELSE SubSeq(s, 1, Len(s) - 1)

\* A start-of-line word that is wider than maxWidth is broken: all fragments but
\* the last become lines, the last one becomes the current line.
BreakIfTooLong(font, st, maxWidth) ==
    IF WidthGreater(font, st.currentLine, maxWidth)
    THEN LET broken == breakWord(font, st.currentLine, maxWidth) IN
         [lines |-> st.lines \o AllButLast(broken),
          currentLine |-> broken[Len(broken)],
          wasWordBroken |-> TRUE]
    ELSE st

\* The for loop of wrapText over words[i], i >= 1 (here 1-based from).
RECURSIVE WrapLoop(_, _, _, _, _)
WrapLoop(font, words, from, maxWidth, st) ==
    IF from > Len(words) THEN st
    ELSE LET word == words[from]
             joined == st.currentLine \o <<" ">> \o word
         IN
         IF WidthLess(font, joined, maxWidth)
         THEN WrapLoop(font, words, from + 1, maxWidth,
                       [st EXCEPT !.currentLine = joined])
         ELSE WrapLoop(font, words, from + 1, maxWidth,
                       BreakIfTooLong(font,
                           [st EXCEPT !.lines = Append(st.lines, st.currentLine),
                                      !.currentLine = word],
                           maxWidth))

wrapText(font, text, maxWidth) ==
    LET words == SplitSpaces(text)
        first == BreakIfTooLong(font,
                     [lines |-> <<>>, currentLine |-> words[1], wasWordBroken |-> FALSE],
                     maxWidth)
        last == WrapLoop(font, words, 2, maxWidth, first)
    IN [lines |-> IF TruthyText(last.currentLine)
                  THEN Append(last.lines, last.currentLine)
                  ELSE last.lines,
        wasWordBroken |-> last.wasWordBroken]

StartSize(fontWeight) == IF fontWeight = "bold" THEN BOLD_START_SIZE ELSE NORMAL_START_SIZE

\* lines.length * size * 1.2 <= maxHeight, in exact integer form.
HeightFits(lineCount, size, maxHeight) == lineCount * size * 6 <= maxHeight * 5

\* A variant of FitLoop that keeps the last hard-broken candidate found (the
\* smallest size that fits) instead of the first.
RECURSIVE FitLoopKeepLast(_, _, _, _, _, _)
FitLoopKeepLast(text, maxWidth, maxHeight, fontWeight, size, validResultWithBreaks) ==
    IF size < MIN_FONT_SIZE
    THEN IF IsSome(validResultWithBreaks)
         THEN Get(validResultWithBreaks)
         ELSE [lines |-> wrapText([weight |-> fontWeight, size |-> MIN_FONT_SIZE],
                                  text, maxWidth).lines,
               fontSize |-> MIN_FONT_SIZE]
    ELSE LET w == wrapText([weight |-> fontWeight, size |-> size], text, maxWidth) IN
         IF HeightFits(Len(w.lines), size, maxHeight)
         THEN IF ~w.wasWordBroken
              THEN [lines |-> w.lines, fontSize |-> size]
              ELSE FitLoopKeepLast(text, maxWidth, maxHeight, fontWeight, size - 1,
                                   Some([lines |-> w.lines, fontSize |-> size]))
         ELSE FitLoopKeepLast(text, maxWidth, maxHeight, fontWeight, size - 1,
                              validResultWithBreaks)

\* The descending loop of fitText from `size` with the fallback recorded so far
\* (validResultWithBreaks, absent or present).
RECURSIVE FitLoop(_, _, _, _, _, _)
FitLoop(text, maxWidth, maxHeight, fontWeight, size, validResultWithBreaks) ==
    IF size < MIN_FONT_SIZE
    THEN IF IsSome(validResultWithBreaks)
         THEN Get(validResultWithBreaks)
         ELSE [lines |-> wrapText([weight |-> fontWeight, size |-> MIN_FONT_SIZE],
                                  text, maxWidth).lines,
               fontSize |-> MIN_FONT_SIZE]
    ELSE LET w == wrapText([weight |-> fontWeight, size |-> size], text, maxWidth) IN
         IF HeightFits(Len(w.lines), size, maxHeight)
         THEN IF ~w.wasWordBroken
              THEN [lines |-> w.lines, fontSize |-> size]
              ELSE FitLoop(text, maxWidth, maxHeight, fontWeight, size - 1,
                           IF IsSome(validResultWithBreaks)
                           THEN validResultWithBreaks
                           ELSE Some([lines |-> w.lines, fontSize |-> size]))
         ELSE FitLoop(text, maxWidth, maxHeight, fontWeight, size - 1,
                      validResultWithBreaks)

\* A variant of FitLoop that returns the first size whose wrap fits the height,
\* hard breaks or not.
RECURSIVE FitLoopFirstFit(_, _, _, _, _)
FitLoopFirstFit(text, maxWidth, maxHeight, fontWeight, size) ==
    LET w == wrapText([weight |-> fontWeight, size |-> size], text, maxWidth) IN
    IF size <= MIN_FONT_SIZE \/ HeightFits(Len(w.lines), size, maxHeight)
    THEN [lines |-> w.lines, fontSize |-> size]
    ELSE FitLoopFirstFit(text, maxWidth, maxHeight, fontWeight, size - 1)

fitTextFirstFit(text, maxWidth, maxHeight, fontWeight) ==
    IF ~TruthyText(text)
    THEN [lines |-> <<>>, fontSize |-> EMPTY_TEXT_FONT_SIZE]
    ELSE FitLoopFirstFit(text, maxWidth, maxHeight, fontWeight, StartSize(fontWeight))

fitText(text, maxWidth, maxHeight, fontWeight) ==
    IF ~TruthyText(text)
    THEN [lines |-> <<>>, fontSize |-> EMPTY_TEXT_FONT_SIZE]
    ELSE FitLoop(text, maxWidth, maxHeight, fontWeight, StartSize(fontWeight), None)

-----------------------------------------------------------------------------
(* URLs.  A URL string is held by the two parts the code looks at: the     *)
(* scheme as written (empty when the string has none) and the host as      *)
(* written.                                                                *)

HttpUrl == [scheme |-> "http", host |-> "img.example"]
UpperUrl == [scheme |-> "HTTPS", host |-> "IMG.Example"]
FtpUrl == [scheme |-> "ftp", host |-> "img.example"]
LocalUrl == [scheme |-> "http", host |-> "localhost"]
MalformedUrl == [scheme |-> "", host |-> "not a url"]
EmptyUrl == [scheme |-> "", host |-> ""]

Urls == {HttpUrl, UpperUrl, FtpUrl, LocalUrl, MalformedUrl, EmptyUrl}

\* if (item.imageUrl): the empty string is falsy.
TruthyUrl(u) == u # EmptyUrl

\* ASCII lower-casing of the scheme and host, as the URL parser does it.
LowerName(s) ==
    CASE s = "HTTPS" -> "https"
      [] s = "HTTP" -> "http"
      [] s = "FTP" -> "ftp"
      [] s = "IMG.Example" -> "img.example"
      [] OTHER -> s

\* new URL(inputUrl): throws a TypeError when the string has no scheme, or has
\* one of the web schemes and no host; otherwise protocol and hostname are the
\* lower-cased parts.
ParseUrl(inputUrl) ==
    IF inputUrl.scheme = ""
       \/ (LowerName(inputUrl.scheme) \in {"http", "https", "ftp"} /\ inputUrl.host = "")
    THEN [ok |-> FALSE, protocol |-> "", hostname |-> ""]
    ELSE [ok |-> TRUE,
          protocol |-> LowerName(inputUrl.scheme) \o ":",
          hostname |-> LowerName(inputUrl.host)]

\* A variant of ProtocolAllowed that also lets ftp through.
ProtocolAllowedWithFtp(protocol) ==
    protocol = "http:" \/ protocol = "https:" \/ protocol = "ftp:"

ProtocolAllowed(protocol) == protocol = "http:" \/ protocol = "https:"

\* A variant of ValidatedUrl that returns the parsed URL's normalised text.
ValidatedUrlNormalised(inputUrl) ==
    [scheme |-> LowerName(inputUrl.scheme), host |-> LowerName(inputUrl.host)]

\* What validateUrl returns for an accepted URL: the input string itself.
ValidatedUrl(inputUrl) == inputUrl

-----------------------------------------------------------------------------
(* Resolved addresses.  dns.lookup answers with the textual form of an     *)
(* address; the model keeps the numeric octets of an IPv4 address beside    *)
(* its text so that a range can be stated on the numbers.                  *)

DigitChars == <<"0", "1", "2", "3", "4", "5", "6", "7", "8", "9">>

RECURSIVE DecimalChars(_)
DecimalChars(n) ==
    IF n < 10 THEN <<DigitChars[n + 1]>>
    ELSE Append(DecimalChars(n \div 10), DigitChars[(n % 10) + 1])

\* Dotted-quad text of four octets.
DottedQuad(o) ==
    DecimalChars(o[1]) \o <<".">> \o DecimalChars(o[2]) \o <<".">>
        \o DecimalChars(o[3]) \o <<".">> \o DecimalChars(o[4])

V4(o) == [family |-> 4, octets |-> o, text |-> DottedQuad(o)]
V6(t) == [family |-> 6, octets |-> <<>>, text |-> t]

V4Addresses ==
    {V4(o) : o \in {<<10, 0, 0, 1>>, <<172, 15, 0, 1>>, <<172, 16, 0, 1>>,
                    <<172, 31, 255, 255>>, <<172, 32, 0, 1>>, <<192, 168, 1, 1>>,
                    <<192, 169, 1, 1>>, <<127, 0, 0, 1>>, <<0, 0, 0, 0>>,
                    <<0, 1, 2, 3>>, <<8, 8, 8, 8>>, <<169, 254, 1, 1>>}}

V6Addresses ==
    {V6(t) : t \in {<<":", ":", "1">>,
                    <<"f", "c", "0", "0", ":", ":", "1">>,
                    <<"f", "d", "0", "0", ":", ":", "1">>,
                    <<"f", "e", "8", "0", ":", ":", "1">>,
                    <<"2", "0", "0", "1", ":", "d", "b", "8", ":", ":", "1">>,
                    <<":", ":", "f", "f", "f", "f", ":",
                      "1", "2", "7", ".", "0", ".", "0", ".", "1">>}}

Addresses == V4Addresses \cup V6Addresses

\* address.split('.')
RECURSIVE SplitDots(_, _, _)
SplitDots(rest, segments, current) ==
    IF rest = <<>> THEN Append(segments, current)
    ELSE IF Head(rest) = "."
         THEN SplitDots(Tail(rest), Append(segments, current), <<>>)
         ELSE SplitDots(Tail(rest), segments, Append(current, Head(rest)))

DigitValue(c) == CHOOSE d \in 0..9 : DigitChars[d + 1] = c

IsDigit(c) == \E d \in 0..9 : DigitChars[d + 1] = c

\* Number(segment) for the segments that occur: a run of digits is its value,
\* the empty string is 0, anything else is NaN (here -1, which equals no octet
\* and lies in no range the code tests).
NaN == -1

RECURSIVE DigitsValue(_, _)
DigitsValue(seg, acc) ==
    IF seg = <<>> THEN acc ELSE DigitsValue(Tail(seg), acc * 10 + DigitValue(Head(seg)))

ToNumber(seg) ==
    IF \A k \in 1..Len(seg) : IsDigit(seg[k]) THEN DigitsValue(seg, 0) ELSE NaN

LowerChar(c) ==
    CASE c = "F" -> "f"
      [] c = "C" -> "c"
      [] c = "E" -> "e"
      [] OTHER -> c

ToLowerCase(t) == [k \in 1..Len(t) |-> LowerChar(t[k])]

StartsWith(t, prefix) ==
    Len(t) >= Len(prefix) /\ SubSeq(t, 1, Len(prefix)) = prefix

Includes(t, c) == \E k \in 1..Len(t) : t[k] = c

\* The private-address test of validateUrl on the text dns.lookup answered.
IsForbiddenAddress(address) ==
    LET segments == SplitDots(address, <<>>, <<>>)
        parts == [k \in 1..Len(segments) |-> ToNumber(segments[k])]
    IN
    IF Len(parts) = 4
    THEN \/ parts[1] = 10
         \/ (parts[1] = 172 /\ parts[2] >= 16 /\ parts[2] <= 31)
         \/ (parts[1] = 192 /\ parts[2] = 168)
         \/ parts[1] = 127
         \/ parts[1] = 0
    ELSE /\ Includes(address, ":")
         /\ \/ address = <<":", ":", "1">>
            \/ StartsWith(ToLowerCase(address), <<"f", "c">>)
            \/ StartsWith(ToLowerCase(address), <<"f", "e", "8", "0">>)

\* What dns.lookup may answer: an address, or a failure (ENOTFOUND and the like).
\* The name localhost resolves to a loopback address; any other name may
\* resolve to any address.
LookupFailure == [family |-> 0, octets |-> <<>>, text |-> <<>>]
LookupAnswers(hostname) ==
    IF hostname = "localhost"
    THEN {V4(<<127, 0, 0, 1>>), V6(<<":", ":", "1">>)}
    ELSE Addresses \cup {LookupFailure}

\* What axios.get may answer (maxRedirects 0 turns a redirect into an error).
FetchAnswers == {"ok", "timeout", "oversize", "redirect", "httpError"}

-----------------------------------------------------------------------------
(* Tiers, items and configs.  A tier's colour only reaches fillStyle and   *)
(* is left out.                                                            *)

Tier(id, label) == [id |-> id, label |-> label]

\* The strings of tiers and of item.tier, as character sequences.
StrS == <<"S">>
StrA == <<"A">>
StrB == <<"B">>
StrC == <<"C">>
StrD == <<"D">>
StrF == <<"F">>
StrLowerS == <<"s">>
StrTop == <<"T", "o", "p">>
StrLow == <<"L", "o", "w">>
StrGodTier == <<"G", "o", "d", " ", "T", "i", "e", "r", " ", "(", "U", "n", "b", "e", "a", "t", "a", "b", "l", "e", ")">>
StrConstructor == <<"c", "o", "n", "s", "t", "r", "u", "c", "t", "o", "r">>
StrToString == <<"t", "o", "S", "t", "r", "i", "n", "g">>

DEFAULT_TIERS ==
    <<Tier(StrS, StrS), Tier(StrA, StrA), Tier(StrB, StrB),
      Tier(StrC, StrC), Tier(StrD, StrD), Tier(StrF, StrF)>>

\* A custom list: a label that is another tier's id, one label used twice, and
\* a long label.
CustomTiers ==
    <<Tier(StrS, StrB), Tier(StrB, StrTop), Tier(StrC, StrTop), Tier(StrD, StrGodTier)>>

\* A custom list in which one id occurs twice (the schema does not forbid it).
DuplicateIdTiers == <<Tier(StrS, StrTop), Tier(StrS, StrLow)>>

\* CustomTiers followed by tiers T5, T6, ... up to n tiers in all.
LongTiers(n) ==
    [j \in 1..n |-> IF j <= Len(CustomTiers) THEN CustomTiers[j]
                    ELSE Tier(<<"T">> \o DecimalChars(j), <<"T">> \o DecimalChars(j))]

\* The fewest tiers whose rows alone pass the height ceiling.
TiersOverCeiling == (MAX_CANVAS_HEIGHT \div (ROW_MIN_HEIGHT + 2)) + 1

\* config.tiers: absent, or one of these lists.
TierLists ==
    {None, Some(<<>>), Some(CustomTiers), Some(DuplicateIdTiers),
     Some(LongTiers(TiersOverCeiling - 1)), Some(LongTiers(TiersOverCeiling))}

IsLongTierList(t) == IsSome(t) /\ Len(Get(t)) > Len(CustomTiers)

\* Texts of items, as character sequences.
TextAb == <<"a", "b">>
TextLong == <<"W", "W", "W", "W", "W", "W", "W", "W", " ", "a", "W">>
QuestionMark == <<"?">>
ItemWord == <<"I", "t", "e", "m">>

ItemKind(tier, imageUrl, text) == [tier |-> tier, imageUrl |-> imageUrl, text |-> text]

\* The kinds of item a config is built from: every way the grouping and the
\* image loading can go for one item.
ItemKinds ==
    {ItemKind(StrB, None, Some(TextLong)),
     ItemKind(StrTop, Some(EmptyUrl), None),
     ItemKind(StrLowerS, Some(LocalUrl), None),
     ItemKind(StrConstructor, None, Some(TextAb)),
     ItemKind(StrS, Some(HttpUrl), None),
     ItemKind(StrS, Some(UpperUrl), Some(TextAb)),
     ItemKind(StrB, Some(FtpUrl), Some(<<>>)),
     ItemKind(StrS, Some(MalformedUrl), Some(TextAb)),
     ItemKind(StrS, Some(LocalUrl), Some(TextAb))}

\* The item repeated to make a config long.
FillerKind == ItemKind(StrS, None, Some(TextAb))

\* A variant of itemsPerRow computed from the full width of the image instead
\* of the width right of the label column.
itemsPerRowFullWidth == LIST_WIDTH \div (ITEM_SIZE + PADDING)

\* Math.floor(contentWidth / (ITEM_SIZE + PADDING))
itemsPerRow == (LIST_WIDTH - TIER_LABEL_WIDTH) \div (ITEM_SIZE + PADDING)

\* How many filler items follow the freely chosen ones: none, one visual line
\* of a row, and the counts around the item ceiling.
PadSizes == {0, itemsPerRow, MAX_ITEMS - 1, MAX_ITEMS, MAX_ITEMS + 1}

WithId(kind, k) ==
    [id |-> ToString(k), tier |-> kind.tier, imageUrl |-> kind.imageUrl, text |-> kind.text]

MakeItems(head, pad) ==
    [k \in 1..(Len(head) + pad) |->
        WithId(IF k <= Len(head) THEN head[k] ELSE FillerKind, k)]

\* config.title: absent, the empty string, or a short title.
Titles == {None, Some(<<>>), Some(TextAb)}

\* The configs a render is started on.  Long item lists and long tier lists
\* come with at most one freely chosen item.
Configs ==
    {[title |-> title, tiers |-> tiers, items |-> MakeItems(head, pad)] :
        <<title, tiers, head, pad>> \in
            {q \in Titles \X TierLists
                    \X SeqUpTo(ItemKinds, MaxHead) \X PadSizes :
                (q[4] > 0 \/ IsLongTierList(q[2])) => Len(q[3]) <= 1}}

-----------------------------------------------------------------------------
(* Grouping items by tier.  itemsByTier is a plain object literal, so a     *)
(* property read sees the object's own properties (one array per tier id)   *)
(* and, behind them, the properties every object inherits.                  *)

\* Names every plain object inherits from Object.prototype (a sample).
ObjectPrototypeKeys == {StrConstructor, StrToString}

\* itemsByTier[key]: one of the arrays, an inherited member (a truthy value that
\* is no array), or undefined.
PropertyKind(obj, key) ==
    IF key \in DOMAIN obj THEN "array"
    ELSE IF key \in ObjectPrototypeKeys THEN "inherited"
    ELSE "undefined"

\* tiers.forEach(t => itemsByTier[t.id] = [])
EmptyBuckets(tiers) == [id \in {tiers[j].id : j \in 1..Len(tiers)} |-> <<>>]

\* tiers.find(t => t.label === tierId || t.id === tierId): the index of the
\* first such tier, 0 when there is none.
FindTier(tiers, tierId) ==
    LET hits == {j \in 1..Len(tiers) : tiers[j].label = tierId \/ tiers[j].id = tierId}
    IN IF hits = {} THEN 0 ELSE CHOOSE j \in hits : \A h \in hits : j <= h

\* The tierId the loop body ends up with for item.tier = s.
ResolveTierId(tiers, obj, s) ==
    IF PropertyKind(obj, s) = "undefined" /\ FindTier(tiers, s) # 0
    THEN tiers[FindTier(tiers, s)].id
    ELSE s

\* items.forEach(...) from item k on.  g.byTier are the arrays (of item
\* indices), g.unknown the items logged as having an unknown tier, g.threw is
\* set when push is called on something that is no array (a TypeError).
RECURSIVE GroupLoop(_, _, _, _)
GroupLoop(tiers, items, k, g) ==
    IF k > Len(items) \/ g.threw THEN g
    ELSE LET tierId == ResolveTierId(tiers, g.byTier, items[k].tier)
             kind == PropertyKind(g.byTier, tierId)
         IN GroupLoop(tiers, items, k + 1,
                CASE kind = "array" ->
                        [g EXCEPT !.byTier[tierId] = Append(@, k)]
                  [] kind = "inherited" ->
                        [g EXCEPT !.threw = TRUE]
                  [] OTHER ->
                        [g EXCEPT !.unknown = Append(@, k)])

GroupItems(tiers, items) ==
    GroupLoop(tiers, items, 1,
              [byTier |-> EmptyBuckets(tiers), unknown |-> <<>>, threw |-> FALSE])

-----------------------------------------------------------------------------
(* Layout.                                                                 *)

\* A variant of RowHeight that leaves out the padding below the last line of
\* cells.
RowHeightNoPadding(count) ==
    LET rowsNeeded == Max(1, CeilDiv(count, (LIST_WIDTH - TIER_LABEL_WIDTH) \div (ITEM_SIZE + PADDING)))
    IN Max(ROW_MIN_HEIGHT, rowsNeeded * (ITEM_SIZE + PADDING))

\* rowsNeeded and height of one tier, from the number of items in its bucket.
RowHeight(count) ==
    LET rowsNeeded == Max(1, CeilDiv(count, itemsPerRow))
    IN Max(ROW_MIN_HEIGHT, rowsNeeded * (ITEM_SIZE + PADDING) + PADDING)

RowHeights(tiers, byTier) ==
    [i \in 1..Len(tiers) |-> RowHeight(Len(byTier[tiers[i].id]))]

RECURSIVE SumRows(_, _)
SumRows(heights, i) ==
    IF i > Len(heights) THEN 0 ELSE heights[i] + 2 + SumRows(heights, i + 1)

\* config.title ? HEADER_HEIGHT : 0 -- an empty title is falsy.
HeaderHeight(title) == IF IsSome(title) /\ TruthyText(Get(title)) THEN HEADER_HEIGHT ELSE 0

TotalHeight(title, heights) == HeaderHeight(title) + SumRows(heights, 1)

\* const tiers = config.tiers || DEFAULT_TIERS -- an empty array is truthy.
TiersOf(cfg) == IF IsSome(cfg.tiers) THEN Get(cfg.tiers) ELSE DEFAULT_TIERS

-----------------------------------------------------------------------------
(* generateTierListImage as a state machine.                               *)

tiers == TiersOf(config)
items == config.items

\* A variant of tierItems that walks the bucket from its last item to its first.
tierItemsReversed ==
    LET bucket == itemsByTier[TiersOf(config)[ti].id]
    IN [n \in 1..Len(bucket) |-> bucket[Len(bucket) + 1 - n]]

\* tierItems of the row being drawn, and the item the inner loop is at.
tierItems == itemsByTier[tiers[ti].id]
item == items[tierItems[ci]]

NoNet == [stage |-> "idle", url |-> EmptyUrl, validatedUrl |-> EmptyUrl,
          address |-> LookupFailure]
NoIo == [validations |-> 0, lookups |-> 0, fetches |-> 0, decodes |-> 0]
Pending == [kind |-> "pending", code |-> "", address |-> <<>>]

\* A ClientError thrown out of generateTierListImage.
ClientError(code, address) == [kind |-> "ClientError", code |-> code, address |-> address]
\* Any other error thrown out of it.
OtherError(code) == [kind |-> "Error", code |-> code, address |-> <<>>]
\* The PNG buffer returned.
Bytes == [kind |-> "bytes", code |-> "png", address |-> <<>>]

IdleFit == [text |-> <<>>, maxWidth |-> 0, maxHeight |-> 0, weight |-> "normal",
            called |-> FALSE, lines |-> <<>>, fontSize |-> 0]

\* No tool call: generateTierListImage or fitText is called directly.
NoResponse == [isError |-> FALSE, type |-> "none", text |-> <<>>]
NoTool == [server |-> "none", name |-> "", arguments |-> <<>>, stage |-> "none",
           response |-> NoResponse]

Init ==
    /\ config \in Configs
    /\ pc = "start"
    /\ itemsByTier = <<>>
    /\ rowHeights = <<>>
    /\ totalHeight = 0
    /\ canvas = <<>>
    /\ rows = <<>>
    /\ cells = <<>>
    /\ currentY = 0
    /\ ti = 0
    /\ ci = 0
    /\ itemX = 0
    /\ itemY = 0
    /\ net = NoNet
    /\ io = NoIo
    /\ result = Pending
    /\ fit = IdleFit
    /\ tool = NoTool

\* throw: the render ends with this error; nothing else changes.
Throw(error) ==
    /\ pc' = "failed"
    /\ result' = error

\* A variant of CheckItemLimit whose comparison is off by one.
CheckItemLimitOffByOne ==
    /\ pc = "start"
    /\ IF Len(items) > MAX_ITEMS + 1
       THEN Throw(ClientError("TooManyItems", <<>>))
       ELSE pc' = "group" /\ UNCHANGED result
    /\ UNCHANGED <<config, itemsByTier, rowHeights, totalHeight, canvas, rows, cells,
                   currentY, ti, ci, itemX, itemY, net, io, fit, tool>>

\* if (items.length > MAX_ITEMS) throw new ClientError('Too many items...')
CheckItemLimit ==
    /\ pc = "start"
    /\ IF Len(items) > MAX_ITEMS
       THEN Throw(ClientError("TooManyItems", <<>>))
       ELSE pc' = "group" /\ UNCHANGED result
    /\ UNCHANGED <<config, itemsByTier, rowHeights, totalHeight, canvas, rows, cells,
                   currentY, ti, ci, itemX, itemY, net, io, fit, tool>>

\* 1. Group items by tier.
GroupByTier ==
    /\ pc = "group"
    /\ LET g == GroupItems(tiers, items) IN
       IF g.threw
       THEN Throw(OtherError("TypeError")) /\ UNCHANGED itemsByTier
       ELSE pc' = "layout" /\ itemsByTier' = g.byTier /\ UNCHANGED result
    /\ UNCHANGED <<config, rowHeights, totalHeight, canvas, rows, cells,
                   currentY, ti, ci, itemX, itemY, net, io, fit, tool>>

\* 2. Calculate Layout.
CalculateLayout ==
    /\ pc = "layout"
    /\ rowHeights' = RowHeights(tiers, itemsByTier)
    /\ totalHeight' = TotalHeight(config.title, RowHeights(tiers, itemsByTier))
    /\ pc' = "limit"
    /\ UNCHANGED <<config, itemsByTier, canvas, rows, cells,
                   currentY, ti, ci, itemX, itemY, net, io, result, fit, tool>>

\* A variant of CheckHeightLimit that tolerates one more minimum row.
CheckHeightLimitLoose ==
    /\ pc = "limit"
    /\ IF totalHeight > MAX_CANVAS_HEIGHT + ROW_MIN_HEIGHT
       THEN Throw(ClientError("CanvasTooTall", <<>>))
       ELSE pc' = "setup" /\ UNCHANGED result
    /\ UNCHANGED <<config, itemsByTier, rowHeights, totalHeight, canvas, rows, cells,
                   currentY, ti, ci, itemX, itemY, net, io, fit, tool>>

\* if (totalHeight > MAX_CANVAS_HEIGHT) throw new ClientError('...too tall...')
CheckHeightLimit ==
    /\ pc = "limit"
    /\ IF totalHeight > MAX_CANVAS_HEIGHT
       THEN Throw(ClientError("CanvasTooTall", <<>>))
       ELSE pc' = "setup" /\ UNCHANGED result
    /\ UNCHANGED <<config, itemsByTier, rowHeights, totalHeight, canvas, rows, cells,
                   currentY, ti, ci, itemX, itemY, net, io, fit, tool>>

\* 3. Setup Canvas, background, title.
SetupCanvas ==
    /\ pc = "setup"
    /\ canvas' = Append(canvas, totalHeight)
    /\ currentY' = HeaderHeight(config.title)
    /\ ti' = 1
    /\ pc' = "row"
    /\ UNCHANGED <<config, itemsByTier, rowHeights, totalHeight, rows, cells,
                   ci, itemX, itemY, net, io, result, fit, tool>>

\* drawLabelText(ctx, tier.label, 0, currentY, TIER_LABEL_WIDTH, rowHeight)
LabelFit(label, width, height) ==
    fitText(label, width - (5 * 2), height - (5 * 2), "bold")

\* 4. Draw Rows: the label box, the label text, the row background; then the
\* item cursor is put at the row's first cell.
DrawRow ==
    /\ pc = "row"
    /\ ti <= Len(tiers)
    /\ LET f == LabelFit(tiers[ti].label, TIER_LABEL_WIDTH, rowHeights[ti]) IN
       rows' = Append(rows, [tier |-> ti, y |-> currentY, height |-> rowHeights[ti],
                             fontSize |-> f.fontSize, lines |-> f.lines])
    /\ itemX' = TIER_LABEL_WIDTH + PADDING
    /\ itemY' = currentY + PADDING
    /\ ci' = 1
    /\ pc' = "item"
    /\ UNCHANGED <<config, itemsByTier, rowHeights, totalHeight, canvas, cells,
                   currentY, ti, net, io, result, fit, tool>>

\* item.text || fallback: an absent or empty text is falsy.
TextOr(it, fallback) ==
    IF IsSome(it.text) /\ TruthyText(Get(it.text)) THEN Get(it.text) ELSE fallback

\* The cell drawTextItem(ctx, text, x, y) draws.
TextCell(text, x, y) ==
    LET f == fitText(text, ITEM_SIZE - (4 * 2), ITEM_SIZE - (4 * 2), "normal") IN
    [tier |-> ti, item |-> tierItems[ci], kind |-> "text", text |-> text,
     x |-> x, y |-> y, fontSize |-> f.fontSize, lines |-> f.lines]

\* The cell ctx.drawImage(img, itemX, itemY, ITEM_SIZE, ITEM_SIZE) draws.
ImageCell(x, y) ==
    [tier |-> ti, item |-> tierItems[ci], kind |-> "image", text |-> <<>>,
     x |-> x, y |-> y, fontSize |-> 0, lines |-> <<>>]

\* The cell is drawn and the loop moves on: itemX += ITEM_SIZE + PADDING.
DrawAndAdvance(cell) ==
    /\ cells' = Append(cells, cell)
    /\ itemX' = cell.x + ITEM_SIZE + PADDING
    /\ itemY' = cell.y
    /\ ci' = ci + 1
    /\ net' = NoNet
    /\ pc' = "item"
    /\ UNCHANGED result

\* A variant of DrawFallback that uses the placeholder of the items without an
\* image URL.
DrawFallbackItemWord == DrawAndAdvance(TextCell(TextOr(item, ItemWord), itemX, itemY))

\* loadItemImage returned null: drawTextItem(ctx, item.text || '?', itemX, itemY)
DrawFallback == DrawAndAdvance(TextCell(TextOr(item, QuestionMark), itemX, itemY))

\* The overflow check at the head of the item loop.
WrappedX == IF itemX + ITEM_SIZE > LIST_WIDTH THEN TIER_LABEL_WIDTH + PADDING ELSE itemX
WrappedY == IF itemX + ITEM_SIZE > LIST_WIDTH THEN itemY + ITEM_SIZE + PADDING ELSE itemY

\* One turn of the item loop up to its first await: the overflow check, then a
\* text item is drawn at once, and for an image item loadItemImage starts:
\* validateUrl parses the URL (a TypeError inside the try block makes
\* loadItemImage return null), rejects a protocol other than http/https with a
\* ClientError, which loadItemImage rethrows, and otherwise asks dns.lookup.
BeginItem ==
    /\ pc = "item"
    /\ ci <= Len(tierItems)
    /\ IF IsSome(item.imageUrl) /\ TruthyUrl(Get(item.imageUrl))
       THEN LET url == Get(item.imageUrl)
                parsed == ParseUrl(url)
            IN
            IF ~parsed.ok
            THEN /\ DrawAndAdvance(TextCell(TextOr(item, QuestionMark), WrappedX, WrappedY))
                 /\ io' = [io EXCEPT !.validations = @ + 1]
            ELSE IF ~ProtocolAllowed(parsed.protocol)
            THEN /\ Throw(ClientError("InvalidProtocol", <<>>))
                 /\ io' = [io EXCEPT !.validations = @ + 1]
                 /\ itemX' = WrappedX
                 /\ itemY' = WrappedY
                 /\ UNCHANGED <<cells, ci, net>>
            ELSE /\ pc' = "lookup"
                 /\ net' = [NoNet EXCEPT !.stage = "lookup", !.url = url]
                 /\ io' = [io EXCEPT !.validations = @ + 1, !.lookups = @ + 1]
                 /\ itemX' = WrappedX
                 /\ itemY' = WrappedY
                 /\ UNCHANGED <<cells, ci, result>>
       ELSE /\ DrawAndAdvance(TextCell(TextOr(item, ItemWord), WrappedX, WrappedY))
            /\ UNCHANGED io
    /\ UNCHANGED <<config, itemsByTier, rowHeights, totalHeight, canvas, rows,
                   currentY, ti, fit, tool>>

\* A variant of LookupAnswer in which loadItemImage swallows the rejection of
\* a private address like any other error.
LookupAnswerSwallowing ==
    /\ pc = "lookup"
    /\ \E a \in LookupAnswers(ParseUrl(net.url).hostname) :
          IF a = LookupFailure \/ IsForbiddenAddress(a.text)
          THEN /\ cells' = Append(cells, TextCell(TextOr(item, QuestionMark), itemX, itemY))
               /\ itemX' = itemX + ITEM_SIZE + PADDING
               /\ ci' = ci + 1
               /\ net' = [net EXCEPT !.stage = "idle", !.address = a]
               /\ pc' = "item"
               /\ UNCHANGED <<itemY, io, result>>
          ELSE /\ pc' = "fetch"
               /\ net' = [net EXCEPT !.stage = "fetch", !.address = a,
                                     !.validatedUrl = ValidatedUrl(net.url)]
               /\ io' = [io EXCEPT !.fetches = @ + 1]
               /\ UNCHANGED <<cells, itemX, itemY, ci, result>>
    /\ UNCHANGED <<config, itemsByTier, rowHeights, totalHeight, canvas, rows,
                   currentY, ti, fit, tool>>

\* A variant of LookupAnswer in which the fetch is issued before the resolved
\* address is classified.
LookupAnswerFetchFirst ==
    /\ pc = "lookup"
    /\ \E a \in LookupAnswers(ParseUrl(net.url).hostname) :
          IF a = LookupFailure
          THEN DrawFallback /\ UNCHANGED io
          ELSE IF IsForbiddenAddress(a.text)
          THEN /\ Throw(ClientError("UnsafeResource", a.text))
               /\ net' = [net EXCEPT !.stage = "rejected", !.address = a]
               /\ io' = [io EXCEPT !.fetches = @ + 1]
               /\ UNCHANGED <<cells, itemX, itemY, ci>>
          ELSE /\ pc' = "fetch"
               /\ net' = [net EXCEPT !.stage = "fetch", !.address = a,
                                     !.validatedUrl = ValidatedUrl(net.url)]
               /\ io' = [io EXCEPT !.fetches = @ + 1]
               /\ UNCHANGED <<cells, itemX, itemY, ci, result>>
    /\ UNCHANGED <<config, itemsByTier, rowHeights, totalHeight, canvas, rows,
                   currentY, ti, fit, tool>>

\* dns.lookup answers.  A failure is caught by loadItemImage (null); a private
\* address is a ClientError, rethrown; otherwise validateUrl returns and
\* axios.get(validatedUrl) is issued.
LookupAnswer ==
    /\ pc = "lookup"
    /\ \E a \in LookupAnswers(ParseUrl(net.url).hostname) :
          IF a = LookupFailure
          THEN DrawFallback /\ UNCHANGED io
          ELSE IF IsForbiddenAddress(a.text)
          THEN /\ Throw(ClientError("UnsafeResource", a.text))
               /\ net' = [net EXCEPT !.stage = "rejected", !.address = a]
               /\ UNCHANGED <<cells, itemX, itemY, ci, io>>
          ELSE /\ pc' = "fetch"
               /\ net' = [net EXCEPT !.stage = "fetch", !.address = a,
                                     !.validatedUrl = ValidatedUrl(net.url)]
               /\ io' = [io EXCEPT !.fetches = @ + 1]
               /\ UNCHANGED <<cells, itemX, itemY, ci, result>>
    /\ UNCHANGED <<config, itemsByTier, rowHeights, totalHeight, canvas, rows,
                   currentY, ti, fit, tool>>

\* axios.get answers: the body, or an error (timeout, body over
\* maxContentLength, a redirect with maxRedirects 0, a non-2xx status), which
\* loadItemImage catches.
FetchAnswer ==
    /\ pc = "fetch"
    /\ \E r \in FetchAnswers :
          IF r = "ok"
          THEN /\ pc' = "decode"
               /\ net' = [net EXCEPT !.stage = "decode", !.address = LookupFailure]
               /\ io' = [io EXCEPT !.decodes = @ + 1]
               /\ UNCHANGED <<cells, itemX, itemY, ci, result>>
          ELSE DrawFallback /\ UNCHANGED io
    /\ UNCHANGED <<config, itemsByTier, rowHeights, totalHeight, canvas, rows,
                   currentY, ti, fit, tool>>

\* loadImage answers: the decoded image is drawn, or the error is caught.
DecodeAnswer ==
    /\ pc = "decode"
    /\ \E decoded \in BOOLEAN :
          IF decoded
          THEN DrawAndAdvance(ImageCell(itemX, itemY))
          ELSE DrawFallback
    /\ UNCHANGED <<config, itemsByTier, rowHeights, totalHeight, canvas, rows,
                   currentY, ti, io, fit, tool>>

\* The item loop of a row is over: currentY += rowHeight + 2.
EndRow ==
    /\ pc = "item"
    /\ ci > Len(tierItems)
    /\ currentY' = currentY + rowHeights[ti] + 2
    /\ ti' = ti + 1
    /\ pc' = "row"
    /\ UNCHANGED <<config, itemsByTier, rowHeights, totalHeight, canvas, rows, cells,
                   ci, itemX, itemY, net, io, result, fit, tool>>

\* return canvas.toBuffer('image/png').  What the encoder answers for a surface
\* without pixels is not fixed by this repository: it returns or it throws.
Encode ==
    /\ pc = "row"
    /\ ti > Len(tiers)
    /\ \E thrown \in (IF totalHeight = 0 THEN BOOLEAN ELSE {FALSE}) :
          IF thrown
          THEN Throw(OtherError("EncodeError"))
          ELSE pc' = "done" /\ result' = Bytes
    /\ UNCHANGED <<config, itemsByTier, rowHeights, totalHeight, canvas, rows, cells,
                   currentY, ti, ci, itemX, itemY, net, io, fit, tool>>

Next ==
    \/ CheckItemLimit
    \/ GroupByTier
    \/ CalculateLayout
    \/ CheckHeightLimit
    \/ SetupCanvas
    \/ DrawRow
    \/ BeginItem
    \/ LookupAnswer
    \/ FetchAnswer
    \/ DecodeAnswer
    \/ EndRow
    \/ Encode

Spec == Init /\ [][Next]_vars

-----------------------------------------------------------------------------
(* fitText on its own: one call on a text and a box.                       *)

FitChars == {"a", "W", " "}
FitTexts == SeqUpTo(FitChars, MaxTextLen)
FitWidths == {6, 10, 20, ITEM_SIZE - 8, TIER_LABEL_WIDTH - 10}
FitHeights == {10, 20, 30, ITEM_SIZE - 8, ROW_MIN_HEIGHT - 10}
FitWeights == {"normal", "bold"}

InitFit ==
    /\ fit \in {[IdleFit EXCEPT !.text = t, !.maxWidth = w, !.maxHeight = h, !.weight = b] :
                  <<t, w, h, b>> \in FitTexts \X FitWidths \X FitHeights \X FitWeights}
    /\ config = [title |-> None, tiers |-> None, items |-> <<>>]
    /\ pc = "idle"
    /\ itemsByTier = <<>>
    /\ rowHeights = <<>>
    /\ totalHeight = 0
    /\ canvas = <<>>
    /\ rows = <<>>
    /\ cells = <<>>
    /\ currentY = 0
    /\ ti = 0
    /\ ci = 0
    /\ itemX = 0
    /\ itemY = 0
    /\ net = NoNet
    /\ io = NoIo
    /\ result = Pending
    /\ tool = NoTool

CallFitText ==
    /\ ~fit.called
    /\ LET r == fitText(fit.text, fit.maxWidth, fit.maxHeight, fit.weight) IN
       fit' = [fit EXCEPT !.called = TRUE, !.lines = r.lines, !.fontSize = r.fontSize]
    /\ UNCHANGED <<renderVars, tool>>

NextFit == CallFitText

SpecFit == InitFit /\ [][NextFit]_vars

-----------------------------------------------------------------------------
(* The tool-call handler of the MCP server (CallToolRequestSchema).  The    *)
(* repository holds the server in two builds, one on the SSE transport and  *)
(* one on the streamable HTTP transport; their handlers are the same and    *)
(* their schemas differ in the length caps.                                 *)

Servers == {"sse", "http"}

\* z.string().max(50) on a tier label and on an item text.
LABEL_MAX_LENGTH == 50
TEXT_MAX_LENGTH == 50

\* The length caps of a build's GenerateTierListSchema: the streamable HTTP
\* build has them, the SSE build has none.
LabelCap(server) == IF server = "http" THEN Some(LABEL_MAX_LENGTH) ELSE None
TextCap(server) == IF server = "http" THEN Some(TEXT_MAX_LENGTH) ELSE None

\* A string of n characters.
Repeated(n) == [k \in 1..n |-> "a"]

\* The arguments of a request: a config whose items may be missing.
Arguments(title, tierList, itemList) ==
    [title |-> title, tiers |-> tierList, items |-> itemList]

OneItem(kind) == MakeItems(<<kind>>, 0)

\* Arguments on every path of the handler: items missing; strings at and over
\* the caps; configs the renderer draws, rejects, or fails on.
ToolArguments ==
    {Arguments(None, None, None),
     Arguments(None, Some(<<Tier(StrS, Repeated(LABEL_MAX_LENGTH))>>), Some(<<>>)),
     Arguments(None, Some(<<Tier(StrS, Repeated(LABEL_MAX_LENGTH + 1))>>), Some(<<>>)),
     Arguments(None, None, Some(OneItem(ItemKind(StrS, None, Some(Repeated(TEXT_MAX_LENGTH)))))),
     Arguments(None, None, Some(OneItem(ItemKind(StrS, None, Some(Repeated(TEXT_MAX_LENGTH + 1)))))),
     Arguments(Some(TextAb), None, Some(OneItem(ItemKind(StrS, Some(HttpUrl), None)))),
     Arguments(None, None, Some(OneItem(ItemKind(StrB, Some(FtpUrl), Some(TextAb))))),
     Arguments(None, None, Some(OneItem(ItemKind(StrS, Some(LocalUrl), None)))),
     Arguments(None, None, Some(OneItem(ItemKind(StrConstructor, None, Some(TextAb))))),
     Arguments(None, None, Some(MakeItems(<<>>, MAX_ITEMS + 1))),
     Arguments(None, Some(LongTiers(TiersOverCeiling)), Some(<<>>)),
     Arguments(None, Some(<<>>), Some(<<>>))}

ToolNames == {"generate_tier_list", "get_default_tiers"}

\* GenerateTierListSchema.parse: the issues it raises on these arguments
\* (none: the parse returns).
SchemaIssues(server, arguments) ==
    (IF ~IsSome(arguments.items) THEN {"items: Required"} ELSE {})
    \cup
    (IF /\ IsSome(arguments.tiers)
        /\ IsSome(LabelCap(server))
        /\ \E j \in 1..Len(Get(arguments.tiers)) :
               Len(Get(arguments.tiers)[j].label) > Get(LabelCap(server))
     THEN {"label: String must contain at most 50 character(s)"} ELSE {})
    \cup
    (IF /\ IsSome(arguments.items)
        /\ IsSome(TextCap(server))
        /\ \E k \in 1..Len(Get(arguments.items)) :
               /\ IsSome(Get(arguments.items)[k].text)
               /\ Len(Get(Get(arguments.items)[k].text)) > Get(TextCap(server))
     THEN {"text: String must contain at most 50 character(s)"} ELSE {})

\* The message of an error thrown by the renderer or the handler, and what the
\* handler puts in a response.
MessageOf(error) == [kind |-> error.kind, code |-> error.code, address |-> error.address]
GenericMessage ==
    [kind |-> "fixed",
     code |-> "An internal error occurred while generating the tier list.",
     address |-> <<>>]
ValidationMessage(issues) == [kind |-> "Validation Error: ", code |-> issues, address |-> <<>>]

ImageResponse == [isError |-> FALSE, type |-> "image", text |-> <<>>]
ErrorResponse(message) == [isError |-> TRUE, type |-> "text", text |-> Some(message)]

\* catch (error): a ZodError was answered by CallTool; a ClientError gives its
\* own message; anything else the fixed text.
CaughtResponse(error) ==
    IF error.kind = "ClientError"
    THEN ErrorResponse(MessageOf(error))
    ELSE ErrorResponse(GenericMessage)

InitTool ==
    /\ tool \in {[NoTool EXCEPT !.server = s, !.name = n, !.arguments = a,
                                  !.stage = "received"] :
                     <<s, n, a>> \in
                        {q \in Servers \X ToolNames \X ToolArguments :
                            q[2] # "generate_tier_list" => q[3] = Arguments(None, None, None)}}
    /\ config = [title |-> None, tiers |-> None, items |-> <<>>]
    /\ pc = "idle"
    /\ itemsByTier = <<>>
    /\ rowHeights = <<>>
    /\ totalHeight = 0
    /\ canvas = <<>>
    /\ rows = <<>>
    /\ cells = <<>>
    /\ currentY = 0
    /\ ti = 0
    /\ ci = 0
    /\ itemX = 0
    /\ itemY = 0
    /\ net = NoNet
    /\ io = NoIo
    /\ result = Pending
    /\ fit = IdleFit

\* The handler up to the call of generateTierListImage: an unknown tool name
\* throws a ClientError, the schema parse throws a ZodError, both caught by
\* the handler; otherwise the parsed arguments become the config.
CallTool ==
    /\ tool.stage = "received"
    /\ IF tool.name # "generate_tier_list"
       THEN /\ tool' = [tool EXCEPT !.stage = "responded",
                           !.response = CaughtResponse(ClientError("UnknownTool", <<>>))]
            /\ UNCHANGED <<config, pc>>
       ELSE IF SchemaIssues(tool.server, tool.arguments) # {}
       THEN /\ tool' = [tool EXCEPT !.stage = "responded",
                           !.response = ErrorResponse(ValidationMessage(
                                            SchemaIssues(tool.server, tool.arguments)))]
            /\ UNCHANGED <<config, pc>>
       ELSE /\ tool' = [tool EXCEPT !.stage = "rendering"]
            /\ config' = [title |-> tool.arguments.title,
                          tiers |-> tool.arguments.tiers,
                          items |-> Get(tool.arguments.items)]
            /\ pc' = "start"
    /\ UNCHANGED <<itemsByTier, rowHeights, totalHeight, canvas, rows, cells,
                   currentY, ti, ci, itemX, itemY, net, io, result, fit>>

\* A variant of Respond that answers every error with the error's own message.
RespondVerbatim ==
    /\ tool.stage = "rendering"
    /\ pc \in {"done", "failed"}
    /\ tool' = [tool EXCEPT !.stage = "responded",
                            !.response = IF pc = "done" THEN ImageResponse
                                         ELSE ErrorResponse(MessageOf(result))]
    /\ UNCHANGED renderVars
    /\ UNCHANGED fit

\* generateTierListImage has returned or thrown: the image is returned, an
\* error goes through the catch block.
Respond ==
    /\ tool.stage = "rendering"
    /\ pc \in {"done", "failed"}
    /\ tool' = [tool EXCEPT !.stage = "responded",
                            !.response = IF pc = "done" THEN ImageResponse
                                         ELSE CaughtResponse(result)]
    /\ UNCHANGED renderVars
    /\ UNCHANGED fit

NextTool ==
    \/ CallTool
    \/ Respond
    \/ Next

SpecTool == InitTool /\ [][NextTool]_vars

-----------------------------------------------------------------------------
(* Properties.                                                             *)

\* The total height the layout arithmetic gives for a config.
LayoutHeight(cfg) ==
    TotalHeight(cfg.title,
                RowHeights(TiersOf(cfg), GroupItems(TiersOf(cfg), cfg.items).byTier))

\* The private/local classes as the specification lists them: IPv4 in
\* 10.0.0.0/8, 172.16.0.0/12, 192.168.0.0/16, 127.0.0.0/8 or the literal
\* 0.0.0.0; IPv6 equal to ::1 or with textual prefix fc or fe80.
ListedPrivate(a) ==
    \/ /\ a.family = 4
       /\ \/ a.octets[1] = 10
          \/ (a.octets[1] = 172 /\ a.octets[2] \in 16..31)
          \/ (a.octets[1] = 192 /\ a.octets[2] = 168)
          \/ a.octets[1] = 127
          \/ a.octets = <<0, 0, 0, 0>>
    \/ /\ a.family = 6
       /\ \/ a.text = <<":", ":", "1">>
          \/ StartsWith(a.text, <<"f", "c">>)
          \/ StartsWith(a.text, <<"f", "e", "8", "0">>)

\* An item has an image URL that generateTierListImage would try to load.
HasImageUrl(it) == IsSome(it.imageUrl) /\ TruthyUrl(Get(it.imageUrl))

\* C1: a config with more than 50 items fails with TooManyItems; no drawing
\* surface is allocated and no URL validation, lookup or fetch is issued.
C1_TooManyItems ==
    Len(items) > MAX_ITEMS =>
        /\ canvas = <<>>
        /\ io = NoIo
        /\ pc \in {"start", "failed"}
        /\ pc = "failed" => result = ClientError("TooManyItems", <<>>)

\* C1 witness: a render of 51 or more items, one of them with an image URL,
\* has ended.
C1_Witness ==
    /\ Len(items) > MAX_ITEMS
    /\ pc = "failed"
    /\ \E k \in 1..Len(items) : HasImageUrl(items[k])

\* C2 (as claimed): every config with at most 50 items whose total height is
\* at most 5000 renders: the render never fails, and when it ends it returns
\* the image bytes.
C2_RenderSucceeds ==
    (Len(items) <= MAX_ITEMS /\ LayoutHeight(config) <= MAX_CANVAS_HEIGHT) =>
        /\ pc # "failed"
        /\ pc = "done" => result = Bytes

\* The URL's host resolves to a listed private/local address whenever it is
\* looked up.
ResolvesToPrivate(url) ==
    /\ ParseUrl(url).ok
    /\ \A a \in LookupAnswers(ParseUrl(url).hostname) :
          a # LookupFailure /\ ListedPrivate(a)

\* C3 (as claimed): a config that contains an item whose imageUrl resolves to a
\* private address never returns an image: the render fails, with
\* UnsafeResource.
C3_PrivateUrlFailsRender ==
    (\E k \in 1..Len(items) :
        HasImageUrl(items[k]) /\ ResolvesToPrivate(Get(items[k].imageUrl))) =>
        /\ pc # "done"
        /\ pc = "failed" => result.code = "UnsafeResource"

\* C3 (amended): whenever the render looks up the imageUrl of an item it is
\* drawing and the answer is a listed private/local address, the render fails
\* with UnsafeResource carrying that address, returns no image, issues no fetch
\* for the item and draws no cell for it.
C3_PrivateLookupFailsRender ==
    (net.address # LookupFailure /\ ListedPrivate(net.address)) =>
        /\ pc = "failed"
        /\ net.stage = "rejected"
        /\ result = ClientError("UnsafeResource", net.address.text)
        /\ ~\E j \in 1..Len(cells) : cells[j].tier = ti /\ cells[j].item = tierItems[ci]

\* C3 witness: a private address was answered for an item that came after an
\* item already drawn.
C3_Witness ==
    /\ net.stage = "rejected"
    /\ ListedPrivate(net.address)
    /\ cells # <<>>

\* The state part of C4: a cell drawn for an item with an image URL is the
\* image or the text path with item.text or '?'; a render that has started
\* loading images fails only through a rejection by validateUrl; a render that
\* ends otherwise returns the image bytes.
C4_FallbackState ==
    /\ \A j \in 1..Len(cells) :
          LET c == cells[j] IN
          HasImageUrl(items[c.item]) =>
              \/ c.kind = "image"
              \/ c.kind = "text" /\ c.text = TextOr(items[c.item], QuestionMark)
    /\ (pc = "failed" /\ io.validations > 0) =>
          /\ result.kind = "ClientError"
          /\ result.code \in {"UnsafeResource", "InvalidProtocol"}
    /\ pc = "done" => result = Bytes

\* The step part of C4: a load that ends (the lookup, the fetch or the decode
\* was answered and no further request is issued) either is the rejection of a
\* private address, or draws the item's cell at the cursor -- the image only
\* after a decode, otherwise the text path with item.text or '?' -- and goes on
\* to the next item of the row; a URL that does not parse does the same.
C4_FallbackStep ==
    /\ (pc \in {"lookup", "fetch", "decode"} /\ pc' \notin {"lookup", "fetch", "decode"}) =>
          \/ pc = "lookup" /\ pc' = "failed" /\ result'.code = "UnsafeResource"
          \/ /\ pc' = "item" /\ result' = Pending /\ ci' = ci + 1
             /\ Len(cells') = Len(cells) + 1
             /\ SubSeq(cells', 1, Len(cells)) = cells
             /\ LET c == cells'[Len(cells')] IN
                /\ c.item = tierItems[ci] /\ c.x = itemX /\ c.y = itemY
                /\ \/ pc = "decode" /\ c.kind = "image"
                   \/ c.kind = "text" /\ c.text = TextOr(item, QuestionMark)
    /\ (/\ pc = "item"
        /\ pc' # "item" \/ ci' # ci
        /\ ci <= Len(tierItems)
        /\ HasImageUrl(item)
        /\ ~ParseUrl(Get(item.imageUrl)).ok) =>
          /\ pc' = "item" /\ result' = Pending /\ ci' = ci + 1
          /\ Len(cells') = Len(cells) + 1
          /\ cells'[Len(cells')].kind = "text"
          /\ cells'[Len(cells')].text = TextOr(item, QuestionMark)

\* C4: a failure to load an item's image that is no rejection by validateUrl
\* (lookup error, malformed URL, fetch error, timeout, oversize body, redirect,
\* decode error) never aborts the render: the item is drawn through the text
\* path with item.text or '?', the render goes on with the next item, and a
\* render that ends without a rejection returns the image bytes.
C4_LoadFailureFallsBack == []C4_FallbackState /\ [][C4_FallbackStep]_vars

\* C4 witness: a finished render that drew the text fallback for an item with
\* an image URL and then drew a further cell.
C4_Witness ==
    /\ pc = "done"
    /\ result = Bytes
    /\ \E j \in 1..Len(cells) :
          /\ j < Len(cells)
          /\ cells[j].kind = "text"
          /\ HasImageUrl(items[cells[j].item])

\* Tier resolution as the specification states it: the tier whose id is s,
\* else the first tier whose label is s, else none.  The answer is the id of
\* the bucket, present or absent.
SpecResolve(tierList, s) ==
    IF \E j \in 1..Len(tierList) : tierList[j].id = s
    THEN Some(s)
    ELSE LET byLabel == {j \in 1..Len(tierList) : tierList[j].label = s} IN
         IF byLabel = {} THEN None
         ELSE Some(tierList[CHOOSE j \in byLabel : \A h \in byLabel : j <= h].id)

\* Item k is in the bucket of tier id.
InBucket(k, id) == \E n \in 1..Len(itemsByTier[id]) : itemsByTier[id][n] = k

\* C5 (as claimed): for every tier list and every tier string, the grouping
\* puts the item under the tier whose id is the string, else under the first
\* tier whose label is the string, else nowhere -- whatever the string is; in
\* particular the grouping never fails.
C5_TierResolution ==
    (pc \notin {"start", "group"} /\ Len(items) <= MAX_ITEMS) =>
        /\ result.code # "TypeError"
        /\ \A k \in 1..Len(items) : \A id \in DOMAIN itemsByTier :
              InBucket(k, id) <=> SpecResolve(tiers, items[k].tier) = Some(id)

\* What a render does up to the drawing: how it fails, or the canvas height
\* and the items of each row.
Plan(cfg) ==
    LET tl == TiersOf(cfg)
        g == GroupItems(tl, cfg.items)
        outcome == IF Len(cfg.items) > MAX_ITEMS THEN "TooManyItems"
                   ELSE IF g.threw THEN "TypeError"
                   ELSE IF LayoutHeight(cfg) > MAX_CANVAS_HEIGHT THEN "CanvasTooTall"
                   ELSE "draw"
    IN [outcome |-> outcome,
        height |-> IF outcome = "draw" THEN LayoutHeight(cfg) ELSE 0,
        rows |-> IF outcome = "draw"
                 THEN [i \in 1..Len(tl) |->
                          [n \in 1..Len(g.byTier[tl[i].id]) |->
                              cfg.items[g.byTier[tl[i].id][n]]]]
                 ELSE <<>>]

\* The config without its k-th item.
WithoutItem(cfg, k) ==
    [cfg EXCEPT !.items = SubSeq(cfg.items, 1, k - 1)
                            \o SubSeq(cfg.items, k + 1, Len(cfg.items))]

\* C6 (as claimed): an item whose tier string is no tier's id and no tier's
\* label is in no row and in no cell, the render does not fail because of it,
\* and the render does what it does for the config without the item.
C6_UnresolvedItemDropped ==
    \A k \in 1..Len(items) :
        SpecResolve(tiers, items[k].tier) = None =>
            /\ \A id \in DOMAIN itemsByTier : ~InBucket(k, id)
            /\ \A j \in 1..Len(cells) : cells[j].item # k
            /\ result.code # "TypeError"
            /\ Plan(config) = Plan(WithoutItem(config, k))

ListedPrivateOrZeroNet(a) ==
    ListedPrivate(a) \/ (a.family = 4 /\ a.octets[1] = 0)

\* validateUrl's answer to a resolved address, given whether a classification
\* calls that address private: a private address is rejected with
\* UnsafeResource carrying the address, any other address lets the input URL
\* through unchanged to the fetch.
ValidateAnswer(private) ==
    net.stage \in {"fetch", "rejected"} =>
        IF private
        THEN /\ net.stage = "rejected"
             /\ pc = "failed"
             /\ result = ClientError("UnsafeResource", net.address.text)
        ELSE /\ net.stage = "fetch"
             /\ net.validatedUrl = net.url

\* A rejection by validateUrl issues no fetch.
RejectsBeforeFetch == (pc = "lookup" /\ pc' = "failed") => io' = io

\* C8 (as claimed): on an http or https URL validateUrl fails with
\* UnsafeResource carrying the resolved address, before anything is fetched,
\* when the address is in a listed class, and returns the input URL unchanged
\* when it is in none.
C8_ValidateUrlListed ==
    /\ []ValidateAnswer(ListedPrivate(net.address))
    /\ [][RejectsBeforeFetch]_vars

\* C8 (amended): the same with the IPv4 class "literal 0.0.0.0" replaced by
\* "first octet 0" (0.0.0.0/8).
C8_ValidateUrlZeroNet ==
    /\ []ValidateAnswer(ListedPrivateOrZeroNet(net.address))
    /\ [][RejectsBeforeFetch]_vars

\* C8 witness: a URL written with upper-case letters went through validateUrl
\* to the fetch on an address outside every class.
C8_Witness ==
    /\ net.stage = "fetch"
    /\ net.url = UpperUrl
    /\ net.validatedUrl = UpperUrl
    /\ ~ListedPrivateOrZeroNet(net.address)

\* The scheme of a URL string (schemes are case-insensitive).
SchemeOf(url) == LowerName(url.scheme)

\* The state part of C9: no lookup and no fetch is ever under way for a URL of
\* another scheme, and an invalid-scheme failure is a ClientError that ended the
\* render.
C9_SchemeState ==
    /\ net.stage # "idle" => SchemeOf(net.url) \in {"http", "https"}
    /\ result.code = "InvalidProtocol" => (pc = "failed" /\ result.kind = "ClientError")

\* The step part of C9: the turn of the item loop on an item whose URL has a
\* scheme other than http and https ends the render with the ClientError, issues
\* no lookup and no fetch, and draws no cell.
C9_SchemeStep ==
    (/\ pc = "item"
     /\ pc' # "item" \/ ci' # ci
     /\ ci <= Len(tierItems)
     /\ HasImageUrl(item)
     /\ Get(item.imageUrl).scheme # ""
     /\ SchemeOf(Get(item.imageUrl)) \notin {"http", "https"}) =>
        /\ pc' = "failed"
        /\ result' = ClientError("InvalidProtocol", <<>>)
        /\ io'.lookups = io.lookups
        /\ io'.fetches = io.fetches
        /\ cells' = cells

\* C9: a URL whose scheme is neither http nor https makes validateUrl fail with
\* a ClientError before any DNS lookup and any fetch, and that failure ends the
\* render instead of being swallowed as a failed image.
C9_SchemeRejectedFirst == []C9_SchemeState /\ [][C9_SchemeStep]_vars

\* C9 witness: a render ended on an ftp URL after drawing an earlier item.
C9_Witness ==
    /\ pc = "failed"
    /\ result = ClientError("InvalidProtocol", <<>>)
    /\ cells # <<>>
    /\ Get(item.imageUrl) = FtpUrl

\* The sizes of the range at which the greedy wrap of the call's text has no
\* hard break and fits the box height.
CleanSizes ==
    {size \in MIN_FONT_SIZE..StartSize(fit.weight) :
        LET w == wrapText([weight |-> fit.weight, size |-> size], fit.text, fit.maxWidth)
        IN ~w.wasWordBroken /\ HeightFits(Len(w.lines), size, fit.maxHeight)}

\* The sizes of the range at which the wrap fits the box height, hard breaks
\* or not.
FittingSizes ==
    {size \in MIN_FONT_SIZE..StartSize(fit.weight) :
        LET w == wrapText([weight |-> fit.weight, size |-> size], fit.text, fit.maxWidth)
        IN HeightFits(Len(w.lines), size, fit.maxHeight)}

Largest(S) == CHOOSE m \in S : \A n \in S : n <= m

\* C10: for a non-empty text, when some size of the range wraps without a hard
\* break and fits the box height, fitText returns the largest such size with
\* the greedy wrap at that size.
C10_LargestCleanFit ==
    (fit.called /\ TruthyText(fit.text) /\ CleanSizes # {}) =>
        /\ fit.fontSize = Largest(CleanSizes)
        /\ fit.lines = wrapText([weight |-> fit.weight, size |-> Largest(CleanSizes)],
                                fit.text, fit.maxWidth).lines

\* C10 witness: fitText returned a clean fit below a larger size that fits
\* only with a hard break.
C10_Witness ==
    /\ fit.called
    /\ CleanSizes # {}
    /\ fit.fontSize = Largest(CleanSizes)
    /\ \E size \in FittingSizes : size > fit.fontSize

\* The greedy wrap of the call's text at a size of the call's weight.
WrapAt(size) == wrapText([weight |-> fit.weight, size |-> size], fit.text, fit.maxWidth)

\* C11: for a non-empty text fitText returns (it never throws) a size within
\* [8, start]; when no size gives a clean fit it returns the largest size
\* whose wrap, hard breaks included, fits the box height, with that wrap; and
\* when no size fits at all it returns size 8 with the wrap at size 8, which
\* overflows the box.
C11_AlwaysDrawable ==
    (fit.called /\ TruthyText(fit.text)) =>
        /\ fit.fontSize \in MIN_FONT_SIZE..StartSize(fit.weight)
        /\ fit.lines = WrapAt(fit.fontSize).lines
        /\ (CleanSizes = {} /\ FittingSizes # {}) =>
               /\ fit.fontSize = Largest(FittingSizes)
               /\ WrapAt(fit.fontSize).wasWordBroken
        /\ FittingSizes = {} =>
               /\ fit.fontSize = MIN_FONT_SIZE
               /\ ~HeightFits(Len(fit.lines), fit.fontSize, fit.maxHeight)

\* C11 witness: no clean fit exists, the wrap fits with a hard break at more
\* than one size, and fitText returned the largest of them.
C11_Witness ==
    /\ fit.called
    /\ TruthyText(fit.text)
    /\ CleanSizes = {}
    /\ Cardinality(FittingSizes) > 1
    /\ fit.fontSize = Largest(FittingSizes)

\* A second case of C11: nothing fits and size 8 is returned with a wrap that
\* overflows the box.
C11_OverflowCase ==
    /\ fit.called
    /\ TruthyText(fit.text)
    /\ FittingSizes = {}
    /\ fit.fontSize = MIN_FONT_SIZE

\* The sum over j = from..n of rowHeight(j) + 2.
RECURSIVE SumWithSeparators(_, _, _)
SumWithSeparators(rowHeight, from, n) ==
    IF from > n THEN 0
    ELSE rowHeight[from] + 2 + SumWithSeparators(rowHeight, from + 1, n)

\* The canvas height as the specification states it, from the buckets of the
\* render: 60 for a title, and for each tier max(100, ceil(itemCount / 8) * 85
\* + 5) + 2.  An empty title counts as no title.
StatedHeight ==
    LET stated == [j \in 1..Len(tiers) |->
                      Max(100, CeilDiv(Len(itemsByTier[tiers[j].id]), 8) * 85 + 5)]
    IN (IF IsSome(config.title) /\ Get(config.title) # <<>> THEN 60 ELSE 0)
       + SumWithSeparators(stated, 1, Len(tiers))

\* C12: the height handed to createCanvas is the header height (60 with a
\* title, else 0) plus, for every tier in order, its row height plus 2, the
\* row height being max(100, ceil(itemCount / 8) * 85 + 5); the default tiers
\* with one item and no title give 612, with a title and no item 672.
C12_CanvasHeight ==
    \A n \in 1..Len(canvas) :
        /\ canvas[n] = StatedHeight
        /\ (config.tiers = None /\ Len(items) = 1 /\ config.title = None)
              => canvas[n] = 612
        /\ (config.tiers = None /\ Len(items) = 0 /\ config.title = Some(TextAb))
              => canvas[n] = 672

\* C12 witness: a canvas was allocated for a titled config in which one tier
\* holds more than one visual line of items.
C12_Witness ==
    /\ canvas # <<>>
    /\ config.title = Some(TextAb)
    /\ \E j \in 1..Len(tiers) : Len(itemsByTier[tiers[j].id]) > 8
    /\ canvas[1] > 672

\* C13: an error of a tool call that is neither a schema validation error nor
\* a ClientError is answered with isError and the fixed text 'An internal
\* error occurred while generating the tier list.', never with the error's
\* own message; a ClientError is answered with isError and its own message.
C13_ErrorMapping ==
    tool.stage = "responded" =>
        /\ (pc = "failed" /\ result.kind = "Error") =>
              /\ tool.response.isError
              /\ tool.response.type = "text"
              /\ Get(tool.response.text).code
                    = "An internal error occurred while generating the tier list."
              /\ Get(tool.response.text).code # result.code
        /\ (pc = "failed" /\ result.kind = "ClientError") =>
              /\ tool.response.isError
              /\ tool.response.type = "text"
              /\ tool.response.text
                    = Some([kind |-> "ClientError", code |-> result.code,
                            address |-> result.address])
        /\ tool.name # "generate_tier_list" =>
              /\ tool.response.isError
              /\ Get(tool.response.text).kind = "ClientError"
              /\ Get(tool.response.text).code = "UnknownTool"

\* C13 witness: the encoder threw and the call was answered with the fixed
\* text.
C13_Witness ==
    /\ tool.stage = "responded"
    /\ result = OtherError("EncodeError")
    /\ tool.response = ErrorResponse(GenericMessage)

\* A second case of C13: a ClientError of the renderer answered verbatim.
C13_ClientErrorCase ==
    /\ tool.stage = "responded"
    /\ result = ClientError("UnsafeResource", <<"1", "2", "7", ".", "0", ".", "0", ".", "1">>)
    /\ tool.response = ErrorResponse(MessageOf(result))

\* The arguments of the call hold a tier label or an item text of more than
\* 50 characters.
OverLengthCap ==
    \/ /\ IsSome(tool.arguments.tiers)
       /\ \E j \in 1..Len(Get(tool.arguments.tiers)) :
              Len(Get(tool.arguments.tiers)[j].label) > 50
    \/ /\ IsSome(tool.arguments.items)
       /\ \E k \in 1..Len(Get(tool.arguments.items)) :
              /\ IsSome(Get(tool.arguments.items)[k].text)
              /\ Len(Get(Get(tool.arguments.items)[k].text)) > 50

\* C14: a config reaches generateTierListImage through a generate_tier_list
\* call only after the schema validation, so every tier label and item text
\* in it has at most 50 characters; arguments over a length cap are answered
\* with a validation error and the renderer is never invoked.
C14_SchemaCapsEnforced ==
    /\ pc # "idle" =>
          /\ \A j \in 1..Len(tiers) : Len(tiers[j].label) <= 50
          /\ \A k \in 1..Len(items) :
                IsSome(items[k].text) => Len(Get(items[k].text)) <= 50
    /\ (tool.name = "generate_tier_list" /\ OverLengthCap) =>
          /\ pc = "idle"
          /\ tool.stage = "responded" =>
                /\ tool.response.isError
                /\ Get(tool.response.text).kind = "Validation Error: "

\* The same on the streamable HTTP build alone (a reading aid for C14: the
\* build whose schema has the caps).
C14_OnHttpBuild == tool.server = "http" => C14_SchemaCapsEnforced

\* C15 (as claimed): a render that ends with TooManyItems, CanvasTooTall,
\* UnsafeResource or an invalid-scheme error was aborted before the drawing
\* surface was allocated and before any image fetch was issued in it.
C15_FailFast ==
    (pc = "failed"
     /\ result.code \in {"TooManyItems", "CanvasTooTall", "UnsafeResource", "InvalidProtocol"}) =>
        /\ canvas = <<>>
        /\ io.fetches = 0

\* C15 (amended): TooManyItems and CanvasTooTall end the render before the
\* surface is allocated and before any URL is validated, resolved or fetched.
\* UnsafeResource and the invalid-scheme error are raised inside the drawing
\* loop, on the allocated surface: nothing is fetched for the offending URL,
\* and every fetch issued before belongs to an item already drawn.
C15_FailFastByKind ==
    pc = "failed" =>
        /\ result.code \in {"TooManyItems", "CanvasTooTall"} =>
              canvas = <<>> /\ io = NoIo /\ rows = <<>> /\ cells = <<>>
        /\ result.code \in {"UnsafeResource", "InvalidProtocol"} =>
              /\ Len(canvas) = 1
              /\ io.fetches <= Len(cells)
              /\ io.decodes <= io.fetches
              /\ io.validations > io.fetches

\* C15 witness: a render ended with UnsafeResource after the image of an
\* earlier item had been fetched.
C15_Witness ==
    /\ pc = "failed"
    /\ result.code = "UnsafeResource"
    /\ canvas # <<>>
    /\ io.fetches > 0

\* C16 (as claimed): when the text fits the box height at some size only with
\* a hard break, no smaller size of the range gives a fit without one; hence
\* fitText returns the largest size at which the wrapped text fits at all.
C16_LargestFitAtAll ==
    (fit.called /\ TruthyText(fit.text)) =>
        /\ \A broken \in FittingSizes \ CleanSizes :
              \A clean \in CleanSizes : clean > broken
        /\ FittingSizes # {} => fit.fontSize = Largest(FittingSizes)

\* C16 (amended): a size that fits only with a hard break can have a clean
\* fit below it, and fitText then returns the largest clean size.  The size
\* returned fits whenever some size fits; it is a clean size whenever one
\* exists; it is below the largest fitting size only when every fitting size
\* above it has a hard break; and it is the largest fitting size when no size
\* is clean.
C16_CleanFitPreferred ==
    (fit.called /\ TruthyText(fit.text) /\ FittingSizes # {}) =>
        /\ fit.fontSize \in FittingSizes
        /\ CleanSizes # {} => fit.fontSize \in CleanSizes
        /\ \A size \in FittingSizes : size > fit.fontSize => size \notin CleanSizes
        /\ CleanSizes = {} => fit.fontSize = Largest(FittingSizes)

\* C16 witness: the text fits with a hard break at the start size, and
\* fitText returned a smaller size, at which it fits without one.
C16_Witness ==
    /\ fit.called
    /\ StartSize(fit.weight) \in FittingSizes \ CleanSizes
    /\ fit.fontSize < StartSize(fit.weight)
    /\ fit.fontSize \in CleanSizes

\* The position of cell n among the cells of its row (0 for the first).
IndexInRow(n) == Cardinality({m \in 1..(n - 1) : cells[m].tier = cells[n].tier})

\* Two 80x80 cells share no pixel.
Disjoint(c, d) ==
    \/ c.x + 80 <= d.x
    \/ d.x + 80 <= c.x
    \/ c.y + 80 <= d.y
    \/ d.y + 80 <= c.y

\* C17: within each tier the k-th item (from 0) is drawn at column k mod 8 and
\* visual line floor(k / 8), the 8 of the row-height formula; every 80x80 cell
\* lies inside its tier's row rectangle, right of the 100px label column and
\* inside the canvas; no two cells of the render overlap.
C17_Placement ==
    /\ \A n \in 1..Len(cells) :
          LET c == cells[n]
              k == IndexInRow(n)
              row == rows[c.tier]
          IN /\ row.tier = c.tier
             /\ c.x = 100 + 5 + (k % 8) * 85
             /\ c.y = row.y + 5 + (k \div 8) * 85
             /\ row.height = Max(100, CeilDiv(Len(itemsByTier[tiers[c.tier].id]), 8) * 85 + 5)
             /\ c.x >= 100
             /\ c.x + 80 <= 800
             /\ c.y >= row.y
             /\ c.y + 80 <= row.y + row.height
             /\ row.y + row.height <= canvas[1]
    /\ \A n \in 1..Len(cells) : \A m \in 1..(n - 1) : Disjoint(cells[m], cells[n])

\* C17 witness: a cell was drawn on the second visual line of a row that is
\* not the last row of the list, and a cell of a later row after it.
C17_Witness ==
    \E n \in 1..Len(cells) :
        /\ IndexInRow(n) >= 8
        /\ cells[n].y = rows[cells[n].tier].y + 90
        /\ \E m \in (n + 1)..Len(cells) : cells[m].tier > cells[n].tier

\* The drawing order of a render: for the tiers from index j on, in list
\* order, the items of the tier's bucket in bucket order, as pairs <<tier
\* index, item index>>.
RECURSIVE OrderFrom(_)
OrderFrom(j) ==
    IF j > Len(tiers) THEN <<>>
    ELSE [n \in 1..Len(itemsByTier[tiers[j].id]) |-> <<j, itemsByTier[tiers[j].id][n]>>]
         \o OrderFrom(j + 1)

\* The render is in or past the drawing loop.
Drawing == cells # <<>> \/ pc \in {"item", "lookup", "fetch", "decode"}

\* The cells drawn so far are the first items of the drawing order, every
\* bucket is in config order, and an image being loaded belongs to the next
\* item of the order: everything before it is drawn.
C18_OrderState ==
    Drawing =>
        /\ \A id \in DOMAIN itemsByTier :
              \A a, b \in 1..Len(itemsByTier[id]) :
                 a < b => itemsByTier[id][a] < itemsByTier[id][b]
        /\ Len(cells) <= Len(OrderFrom(1))
        /\ \A n \in 1..Len(cells) : <<cells[n].tier, cells[n].item>> = OrderFrom(1)[n]
        /\ \A n \in 1..Len(rows) : rows[n].tier = n
        /\ pc \in {"lookup", "fetch", "decode"} =>
              /\ OrderFrom(1)[Len(cells) + 1] = <<ti, tierItems[ci]>>
              /\ net.url = Get(item.imageUrl)

\* URL validations and fetches are issued one at a time: a validation starts
\* only at the head of an item's turn, a fetch only when the lookup of that
\* item's URL has answered, and while a lookup, fetch or decode is pending
\* nothing else is issued and nothing else is drawn.
C18_OrderStep ==
    /\ io'.validations # io.validations =>
          pc = "item" /\ io'.validations = io.validations + 1
    /\ io'.fetches # io.fetches =>
          /\ pc = "lookup" /\ pc' = "fetch"
          /\ io'.fetches = io.fetches + 1
          /\ cells' = cells
    /\ pc \in {"fetch", "decode"} =>
          /\ io'.validations = io.validations
          /\ io'.fetches = io.fetches
          /\ net'.url # net.url => (pc' = "item" /\ Len(cells') = Len(cells) + 1)

\* C18: tiers are processed in list order and the items of a tier in config
\* order; URL validations and image fetches are issued one at a time in that
\* order, at most one fetch is outstanding, and the fetch for an item starts
\* only after the previous item has been drawn, as an image or as fallback.
C18_Sequential == []C18_OrderState /\ [][C18_OrderStep]_vars

\* C18 witness: the image of the second item of a row is being fetched after
\* the first item's image was fetched and drawn.
C18_Witness ==
    /\ pc = "fetch"
    /\ ci = 2
    /\ io.fetches = 2
    /\ Len(cells) >= 1
    /\ cells[Len(cells)].kind = "image"

\* The font of the call at a size.
FontAt(size) == [weight |-> fit.weight, size |-> size]

\* Some word of the call's text (as split at spaces) is alone wider than the
\* box at this size.
SomeWordTooWide(size) ==
    \E n \in 1..Len(SplitSpaces(fit.text)) :
        WidthGreater(FontAt(size), SplitSpaces(fit.text)[n], fit.maxWidth)

\* C19 (as claimed): for every text, size and maxWidth every line wrapText
\* returns (and so every line fitText returns) measures at most maxWidth, and
\* wasWordBroken is set exactly when a word that alone exceeds maxWidth was
\* broken.
C19_LinesWithinWidth ==
    /\ \A size \in MIN_FONT_SIZE..StartSize(fit.weight) :
          /\ \A n \in 1..Len(WrapAt(size).lines) :
                ~WidthGreater(FontAt(size), WrapAt(size).lines[n], fit.maxWidth)
          /\ WrapAt(size).wasWordBroken <=> SomeWordTooWide(size)
    /\ (fit.called /\ TruthyText(fit.text)) =>
          \A n \in 1..Len(fit.lines) :
             ~WidthGreater(FontAt(fit.fontSize), fit.lines[n], fit.maxWidth)

\* C19 (amended): every line measures at most maxWidth unless it is a single
\* character that alone is wider than maxWidth; when every character of the
\* text fits maxWidth at the size, every line does; wasWordBroken is set
\* exactly when a word alone exceeds maxWidth.
C19_LinesWithinWidthOrOneChar ==
    /\ \A size \in MIN_FONT_SIZE..StartSize(fit.weight) :
          /\ \A n \in 1..Len(WrapAt(size).lines) :
                \/ ~WidthGreater(FontAt(size), WrapAt(size).lines[n], fit.maxWidth)
                \/ Len(WrapAt(size).lines[n]) = 1
          /\ WrapAt(size).wasWordBroken <=> SomeWordTooWide(size)
    /\ (fit.called /\ TruthyText(fit.text)) =>
          \A n \in 1..Len(fit.lines) :
             \/ ~WidthGreater(FontAt(fit.fontSize), fit.lines[n], fit.maxWidth)
             \/ Len(fit.lines[n]) = 1

\* C19 witness: fitText returned a wrap in which a word was broken into
\* fragments of several characters, every line within maxWidth.
C19_Witness ==
    /\ fit.called
    /\ WrapAt(fit.fontSize).wasWordBroken
    /\ Len(fit.lines) >= 2
    /\ \E n \in 1..Len(fit.lines) : Len(fit.lines[n]) >= 2
    /\ \A n \in 1..Len(fit.lines) :
          ~WidthGreater(FontAt(fit.fontSize), fit.lines[n], fit.maxWidth)

\* C20: every drawing surface generateTierListImage allocates has a strictly
\* positive height: for every config that passes the item-count and height
\* checks the canvas is at least one minimum row plus its separator (102)
\* high, whatever tiers value the config supplies.
C20_PositiveCanvas ==
    \A n \in 1..Len(canvas) :
        /\ canvas[n] > 0
        /\ canvas[n] >= 102

\* The characters of a text that are not spaces, in order.
NonSpace(t) == SelectSeq(t, LAMBDA c : c # " ")

\* The lines read one after the other: every character of every line, in
\* line order.
Joined(lines) ==
    LET chars == UNION {{<<n, k>> : k \in 1..Len(lines[n])} : n \in 1..Len(lines)}
        Before(a, b) == a[1] < b[1] \/ (a[1] = b[1] /\ a[2] < b[2])
        At(j) == CHOOSE a \in chars : Cardinality({b \in chars : Before(b, a)}) = j - 1
    IN [j \in 1..Cardinality(chars) |-> lines[At(j)[1]][At(j)[2]]]

\* wrapText lost or reordered no non-space character of the call's text at
\* this size.
CharactersKept(size) == NonSpace(Joined(WrapAt(size).lines)) = NonSpace(fit.text)

\* wrapText returned no empty line at this size.
NoEmptyLine(size) == \A n \in 1..Len(WrapAt(size).lines) : WrapAt(size).lines[n] # <<>>

\* C21: wrapText loses and reorders no characters: for every text, size and
\* maxWidth the non-space characters of the returned lines, read line by line,
\* are exactly the non-space characters of the text in order, and no returned
\* line is the empty string; so it is for the lines fitText hands back.
C21_CharactersKeptNoEmptyLine ==
    /\ \A size \in MIN_FONT_SIZE..StartSize(fit.weight) :
          CharactersKept(size) /\ NoEmptyLine(size)
    /\ (fit.called /\ TruthyText(fit.text)) =>
          /\ NonSpace(Joined(fit.lines)) = NonSpace(fit.text)
          /\ \A n \in 1..Len(fit.lines) : fit.lines[n] # <<>>

\* The half of C21 the code keeps: no non-space character is lost, repeated or
\* moved, at any size and in the lines fitText hands back.
C21_CharactersKeptOnly ==
    /\ \A size \in MIN_FONT_SIZE..StartSize(fit.weight) : CharactersKept(size)
    /\ (fit.called /\ TruthyText(fit.text)) =>
          NonSpace(Joined(fit.lines)) = NonSpace(fit.text)

\* A call of fitText that handed back an empty line although no word was
\* broken: a space at the start of the text, or after another space, begins
\* an empty word, and what follows does not fit beside it.
C21_EmptyLineReturned ==
    /\ fit.called
    /\ ~WrapAt(fit.fontSize).wasWordBroken
    /\ \E n \in 1..Len(fit.lines) : fit.lines[n] = <<>>

\* The items the grouping put under a tier.
ResolvedItems == {k \in 1..Len(items) : \E id \in DOMAIN itemsByTier : InBucket(k, id)}

\* count of the layout loop for the tier at index i.
RowCount(i) == Len(itemsByTier[tiers[i].id])

\* The per-row item counts of the layout loop, summed over the tier list.
SumOfRowCounts ==
    Cardinality(UNION {{<<i, n>> : n \in 1..RowCount(i)} : i \in 1..Len(tiers)})

\* The cells in which item k was drawn.
CellsOf(k) == {n \in 1..Len(cells) : cells[n].item = k}

\* No two tiers of the list have the same id.
DistinctTierIds == \A i, j \in 1..Len(tiers) : tiers[i].id = tiers[j].id => i = j

\* C22: the rows partition the resolved items.  Once the canvas is laid out,
\* the row heights come from per-row item counts that sum to the number of
\* resolved items; no item is ever drawn in two cells; and when the render has
\* returned its image, every resolved item is in exactly one cell of exactly
\* one row and the cells are as many as the resolved items.
C22_RowsPartitionItems ==
    /\ canvas # <<>> =>
          /\ \A i \in 1..Len(tiers) : rowHeights[i] = RowHeight(RowCount(i))
          /\ SumOfRowCounts = Cardinality(ResolvedItems)
          /\ \A k \in 1..Len(items) : Cardinality(CellsOf(k)) <= 1
          /\ \A n \in 1..Len(cells) : cells[n].item \in ResolvedItems
    /\ result = Bytes =>
          /\ \A k \in ResolvedItems : Cardinality(CellsOf(k)) = 1
          /\ Len(cells) = Cardinality(ResolvedItems)

\* C22 read for tier lists without a repeated id, where it holds.
C22_WithDistinctTierIds == DistinctTierIds => C22_RowsPartitionItems

\* A render returned its image with an item drawn in two rows.
C22_ItemDrawnTwice ==
    /\ result = Bytes
    /\ \E k \in 1..Len(items) :
          \E n, m \in CellsOf(k) : cells[n].tier # cells[m].tier

====
